---- MODULE Spec2Model ----
(***************************************************************************)
(* A model of the series tracker (src/Series_Tracker.py), its exporter     *)
(* (src/export_series.py) and its importer (src/unnamed/part_000).         *)
(*                                                                         *)
(* Text is modelled character by character: a Python str is a sequence of  *)
(* one-character strings.  A Python float is a sign/magnitude record whose *)
(* magnitude counts tenths, with NaN and the infinities kept apart, so     *)
(* that float(), repr() and the comparisons behave as in Python.  A dict   *)
(* is a function whose DOMAIN is its key set; a record read from a JSON    *)
(* document may lack the key "chapter" or "category".                      *)
(***************************************************************************)
EXTENDS Integers, Sequences, FiniteSets, TLC

VARIABLES
    series_data,   \* main_menu's dict: series name -> {"chapter", "category"}
    document,      \* the backing file List.json
    pc,            \* where main_menu stands: "start", "menu" or "exited"
    last,          \* the latest call: its inputs, result and the dict before it
    text_content,  \* the text handed over by the exporter / read by the importer
    parsed,        \* the dict the importer built from text_content
    session        \* what happened since main_menu started: the document it
                   \* loaded, whether an update succeeded, whether a save ran

vars == <<series_data, document, pc, last, text_content, parsed, session>>

(***************************************************************************)
(* Bounds of the model.                                                    *)
(***************************************************************************)
MaxRecords == 2        \* the most records a dict of the model grows to
MaxChapterInputs == 5  \* how many literals of ChapterInputPool are typed
MaxDocuments == 5      \* how many documents of DocumentPool may be on disk
MaxTexts == 6          \* how many texts of TextPool the importer is given

(***************************************************************************)
(* Characters and strings.                                                 *)
(***************************************************************************)
UpperChars == <<"A","B","C","D","E","F","G","H","I","J","K","L","M",
                "N","O","P","Q","R","S","T","U","V","W","X","Y","Z">>
LowerChars == <<"a","b","c","d","e","f","g","h","i","j","k","l","m",
                "n","o","p","q","r","s","t","u","v","w","x","y","z">>
DigitChars == <<"0","1","2","3","4","5","6","7","8","9">>

\* The characters of the model in code point order.
CharOrder == <<"\n", " ", "+", "-", ".">> \o DigitChars \o <<":">>
             \o UpperChars \o <<"_">> \o LowerChars

Range(s) == {s[i] : i \in 1..Len(s)}
IndexOf(s, c) == CHOOSE i \in 1..Len(s) : s[i] = c

Ord(c) == IndexOf(CharOrder, c)

\* str.lower() on one character.
LowerChar(c) == IF c \in Range(UpperChars) THEN LowerChars[IndexOf(UpperChars, c)] ELSE c
\* str.lower()
Lower(s) == [i \in 1..Len(s) |-> LowerChar(s[i])]

Whitespace == {" ", "\n"}
IsDigit(c) == c \in Range(DigitChars)
DigitVal(c) == IndexOf(DigitChars, c) - 1

\* Python's < on str: lexicographic by code point.
RECURSIVE StrLess(_, _)
StrLess(s, t) ==
    IF t = <<>> THEN FALSE
    ELSE IF s = <<>> THEN TRUE
    ELSE IF s[1] # t[1] THEN Ord(s[1]) < Ord(t[1])
    ELSE StrLess(Tail(s), Tail(t))

\* str.strip(): whitespace removed at both ends.
RECURSIVE LStrip(_)
LStrip(s) == IF s # <<>> /\ s[1] \in Whitespace THEN LStrip(Tail(s)) ELSE s
RECURSIVE RStrip(_)
RStrip(s) ==
    IF s # <<>> /\ s[Len(s)] \in Whitespace THEN RStrip(SubSeq(s, 1, Len(s) - 1)) ELSE s
Strip(s) == RStrip(LStrip(s))

\* sub in s
Contains(s, sub) ==
    \E i \in 1..(Len(s) - Len(sub) + 1) : SubSeq(s, i, i + Len(sub) - 1) = sub

\* s.endswith(suffix)
EndsWith(s, suffix) ==
    /\ Len(s) >= Len(suffix)
    /\ SubSeq(s, Len(s) - Len(suffix) + 1, Len(s)) = suffix

\* s.split(sep) for a one-character sep: the pieces between the separators.
Split(s, sep) ==
    LET seps == {i \in 1..Len(s) : s[i] = sep}
        rank == [i \in seps |-> Cardinality({j \in seps : j <= i})]
        at(k) == IF k = 0 THEN 0
                 ELSE IF k > Cardinality(seps) THEN Len(s) + 1
                 ELSE CHOOSE i \in seps : rank[i] = k
    IN  [k \in 1..(Cardinality(seps) + 1) |-> SubSeq(s, at(k - 1) + 1, at(k) - 1)]

\* sep.join(pieces)
RECURSIVE Join(_, _)
Join(sep, pieces) ==
    IF pieces = <<>> THEN <<>>
    ELSE IF Len(pieces) = 1 THEN pieces[1]
    ELSE pieces[1] \o sep \o Join(sep, Tail(pieces))

(***************************************************************************)
(* Floats.                                                                 *)
(***************************************************************************)
Num(neg, m) == [k |-> "num", neg |-> neg, m |-> m]
NaN == [k |-> "nan", neg |-> FALSE, m |-> 0]
Inf(neg) == [k |-> "inf", neg |-> neg, m |-> 0]

FloatClass(x) == IF x.k = "inf" THEN (IF x.neg THEN -1 ELSE 1) ELSE 0
FloatSigned(x) == IF x.neg THEN 0 - x.m ELSE x.m

\* a < b on floats: every comparison with NaN is False, -0.0 is not below 0.0.
FloatLt(a, b) ==
    /\ a.k # "nan"
    /\ b.k # "nan"
    /\ \/ FloatClass(a) < FloatClass(b)
       \/ FloatClass(a) = FloatClass(b) /\ FloatClass(a) = 0 /\ FloatSigned(a) < FloatSigned(b)
\* a == b on floats
FloatEq(a, b) == a.k # "nan" /\ b.k # "nan" /\ ~FloatLt(a, b) /\ ~FloatLt(b, a)

Zero == Num(FALSE, 0)

RECURSIVE DigitsVal(_)
DigitsVal(s) == IF s = <<>> THEN 0 ELSE DigitsVal(SubSeq(s, 1, Len(s) - 1)) * 10 + DigitVal(s[Len(s)])

\* The decimal part of float(): digits with at most one point and at least one
\* digit.  The magnitude counts tenths: the literals of the model carry at most
\* one fractional digit.
ParseDecimal(neg, body) ==
    LET dots == {i \in 1..Len(body) : body[i] = "."}
        dot == IF dots = {} THEN Len(body) + 1 ELSE CHOOSE i \in dots : TRUE
        int == SubSeq(body, 1, dot - 1)
        frac == SubSeq(body, dot + 1, Len(body))
    IN  IF /\ Cardinality(dots) <= 1
           /\ \A i \in 1..Len(body) : IsDigit(body[i]) \/ body[i] = "."
           /\ Len(int) + Len(frac) >= 1
        THEN [ok |-> TRUE,
              val |-> Num(neg, DigitsVal(int) * 10 + (IF frac = <<>> THEN 0 ELSE DigitVal(frac[1])))]
        ELSE [ok |-> FALSE, val |-> Zero]

\* float(s): ok is FALSE where Python raises ValueError.  Surrounding
\* whitespace is ignored, a sign may lead, "nan", "inf" and "infinity" are
\* accepted in any case.  Exponents and digit-group underscores are not part
\* of the literals typed in the model.
ParseFloat(s) ==
    LET t == Strip(s)
        signed == t # <<>> /\ t[1] \in {"-", "+"}
        neg == signed /\ t[1] = "-"
        body == IF signed THEN Tail(t) ELSE t
    IN  IF Lower(body) = <<"n", "a", "n">> THEN [ok |-> TRUE, val |-> NaN]
        ELSE IF Lower(body) \in {<<"i", "n", "f">>, <<"i", "n", "f", "i", "n", "i", "t", "y">>}
        THEN [ok |-> TRUE, val |-> Inf(neg)]
        ELSE ParseDecimal(neg, body)

RECURSIVE NatToStr(_)
NatToStr(n) == IF n < 10 THEN <<DigitChars[n + 1]>> ELSE NatToStr(n \div 10) \o <<DigitChars[(n % 10) + 1]>>

\* repr(x) of a float, which an f-string interpolates: "12.5", "3.0", "-0.0",
\* "nan", "inf", "-inf".
FloatRepr(x) ==
    IF x.k = "nan" THEN <<"n", "a", "n">>
    ELSE (IF x.neg THEN <<"-">> ELSE <<>>)
         \o (IF x.k = "inf" THEN <<"i", "n", "f">>
             ELSE NatToStr(x.m \div 10) \o <<".">> \o NatToStr(x.m % 10))

(***************************************************************************)
(* Dicts and the records of the store.                                     *)
(***************************************************************************)
EmptyDict == [x \in {} |-> x]

\* d[key] = value
Put(d, key, value) == [x \in DOMAIN d \cup {key} |-> IF x = key THEN value ELSE d[x]]
\* d.get(key, default)
Get(d, key, default) == IF key \in DOMAIN d THEN d[key] ELSE default

Manga == <<"M", "a", "n", "g", "a">>
Manhwa == <<"M", "a", "n", "h", "w", "a">>
Manhua == <<"M", "a", "n", "h", "u", "a">>
Other == <<"O", "t", "h", "e", "r">>
Uncategorized == <<"U", "n", "c", "a", "t", "e", "g", "o", "r", "i", "z", "e", "d">>

CATEGORIES == <<Manga, Manhwa, Manhua, Other>>

\* {"chapter": chapter, "category": category}
Info(chapter, category) == [chapter |-> chapter, category |-> category]

(***************************************************************************)
(* The backing document List.json.  Its content is kept as the JSON value  *)
(* it holds; "corrupt" is a file json.load rejects.                        *)
(***************************************************************************)
Absent == [kind |-> "absent", data |-> EmptyDict]
Corrupt == [kind |-> "corrupt", data |-> EmptyDict]
Json(data) == [kind |-> "json", data |-> data]

load_series_data(doc) ==
    IF doc.kind = "absent" THEN EmptyDict
    ELSE IF doc.kind = "json" THEN doc.data
    ELSE EmptyDict

\* A variant that opens the file for exclusive creation: nothing is written
\* over a file that exists.
save_series_dataExclusive(data, doc, write) ==
    IF doc.kind = "absent" /\ write = "ok" THEN Json(data) ELSE doc

\* The file after save_series_data(data) when it held doc.  open(.., 'w')
\* truncates the file and json.dump rewrites it whole; a write that fails is
\* caught and leaves either the old file (open failed) or a truncated one.
save_series_data(data, doc, write) ==
    IF write = "ok" THEN Json(data)
    ELSE IF write = "open_fails" THEN doc
    ELSE Corrupt

\* A variant whose handler does not catch the failure of the write.
SaveOutcomeUncaught(write) == IF write = "ok" THEN "saved" ELSE "raised"

\* How save_series_data ends: the file is written, or the exception of a
\* failed open or dump is caught by "except Exception" and reported with
\* "[ERROR] An error occurred while saving data".
SaveOutcome(write) == IF write = "ok" THEN "saved" ELSE "caught"

(***************************************************************************)
(* update_series_chapter                                                   *)
(***************************************************************************)
\* A variant that compares the category without regard to case.
InvalidCategoryAnyCase(category) ==
    Lower(category) \notin {Lower(CATEGORIES[i]) : i \in 1..Len(CATEGORIES)}

\* category not in CATEGORIES
InvalidCategory(category) == category \notin Range(CATEGORIES)

\* A variant without the sign check.
IsNegativeUnchecked(chapter) == FALSE

\* chapter_number < 0
IsNegative(chapter) == FloatLt(chapter, Zero)

\* A variant that writes a record only when the chapter does not go down.
StoreRecordNeverDown(data, series_name, chapter, category) ==
    IF /\ series_name \in DOMAIN data
       /\ FloatLt(chapter, Get(data[series_name], "chapter", Zero))
    THEN data
    ELSE Put(data, series_name, Info(chapter, category))

\* A variant that rebuilds the dict around the record it writes.
StoreRecordAlone(data, series_name, chapter, category) ==
    [x \in {series_name} |-> Info(chapter, category)]

\* series_data[series_name] = {"chapter": chapter_number, "category": category}
StoreRecord(data, series_name, chapter, category) ==
    Put(data, series_name, Info(chapter, category))

\* A variant that tests "chapter unchanged" before "only the category changed".
FeedbackUnchangedFirst(is_new, chapter, old_chapter, category, old_category) ==
    IF is_new THEN [kind |-> "Created", category_change |-> FALSE]
    ELSE IF FloatLt(old_chapter, chapter)
         THEN [kind |-> "Advanced", category_change |-> category # old_category]
    ELSE IF FloatEq(chapter, old_chapter)
         THEN [kind |-> "Unchanged", category_change |-> FALSE]
    ELSE IF FloatEq(chapter, old_chapter) /\ category # old_category
         THEN [kind |-> "CategoryChangedOnly", category_change |-> TRUE]
    ELSE [kind |-> "CorrectedDown", category_change |-> category # old_category]

\* The feedback branch taken: which message is printed and whether it
\* carries the " and category changed from ... to ..." part.
Feedback(is_new, chapter, old_chapter, category, old_category) ==
    IF is_new THEN [kind |-> "Created", category_change |-> FALSE]
    ELSE IF FloatLt(old_chapter, chapter)
         THEN [kind |-> "Advanced", category_change |-> category # old_category]
    ELSE IF FloatEq(chapter, old_chapter) /\ category # old_category
         THEN [kind |-> "CategoryChangedOnly", category_change |-> TRUE]
    ELSE IF FloatEq(chapter, old_chapter)
         THEN [kind |-> "Unchanged", category_change |-> FALSE]
    ELSE [kind |-> "CorrectedDown", category_change |-> category # old_category]

Rejected(kind, data, doc) ==
    [ret |-> FALSE, data |-> data, doc |-> doc,
     printed |-> [kind |-> kind, category_change |-> FALSE],
     saved |-> FALSE, report |-> "none", raised |-> FALSE]

\* The call's result: what it returns, the dict and the file after it, the
\* message it prints, whether save_series_data was called and how that ended.
\* An exception that save_series_data let through would leave the call
\* without a return value (raised), the record already written.
update_series_chapter(series_name, chapter_number, category, data, auto_save, doc, write) ==
    IF InvalidCategory(category) THEN Rejected("InvalidCategory", data, doc)
    ELSE LET p == ParseFloat(chapter_number) IN
    IF ~p.ok THEN Rejected("InvalidChapter", data, doc)
    ELSE IF IsNegative(p.val) THEN Rejected("NegativeChapter", data, doc)
    ELSE
    LET is_new == series_name \notin DOMAIN data
        old_data == Get(data, series_name, Info(Zero, category))
        old_chapter == Get(old_data, "chapter", Zero)
        old_category == Get(old_data, "category", category)
        new_data == StoreRecord(data, series_name, p.val, category)
        raised == auto_save /\ SaveOutcome(write) = "raised"
    IN  [ret |-> ~raised,
         data |-> new_data,
         doc |-> IF auto_save THEN save_series_data(new_data, doc, write) ELSE doc,
         printed |-> Feedback(is_new, p.val, old_chapter, category, old_category),
         saved |-> auto_save,
         report |-> IF auto_save THEN SaveOutcome(write) ELSE "none",
         raised |-> raised]

(***************************************************************************)
(* view_all_series                                                         *)
(***************************************************************************)
\* The category a record is grouped under: its own, or Other when the key is
\* missing or the value is not one of CATEGORIES.
GroupOf(info) ==
    LET category == Get(info, "category", Other)
    IN  IF category \notin Range(CATEGORIES) THEN Other ELSE category

\* grouped_data[category_name], as the set of its keys
Grouped(data, category_name) == {n \in DOMAIN data : GroupOf(data[n]) = category_name}

\* sorted(names): ascending by code point.
RECURSIVE Sorted(_)
Sorted(names) ==
    IF names = {} THEN <<>>
    ELSE LET first == CHOOSE n \in names : \A m \in names : ~StrLess(m, n)
         IN  <<first>> \o Sorted(names \ {first})

\* What view_all_series prints for one category: nothing when the group is
\* empty, else the header and one line per series.
ViewBlock(data, category_name) ==
    LET series_in_category == Sorted(Grouped(data, category_name))
    IN  IF series_in_category = <<>> THEN <<>>
        ELSE <<[kind |-> "header", category |-> category_name]>>
             \o [i \in 1..Len(series_in_category) |->
                    [kind |-> "entry", series |-> series_in_category[i],
                     chapter |-> Get(data[series_in_category[i]], "chapter", Zero)]]

\* A variant whose grouping writes the category it files a record under back
\* into the record.
DataAfterViewCoerced(data) ==
    [n \in DOMAIN data |-> Put(data[n], "category", GroupOf(data[n]))]

\* The dict when view_all_series returns: the grouping loop binds the local
\* name category and assigns into grouped_data only, so every info is left as
\* it was.
DataAfterView(data) == [n \in DOMAIN data |-> data[n]]

\* The lines view_all_series prints, each kept as what it shows.
view_all_series(data) ==
    IF DOMAIN data = {} THEN <<[kind |-> "empty"]>>
    ELSE <<[kind |-> "title"]>>
         \o ViewBlock(data, CATEGORIES[1]) \o ViewBlock(data, CATEGORIES[2])
         \o ViewBlock(data, CATEGORIES[3]) \o ViewBlock(data, CATEGORIES[4])
         \o <<[kind |-> "rule"]>>

(***************************************************************************)
(* format_data_to_text (src/export_series.py)                              *)
(***************************************************************************)
SeparatorWidth == 44
\* "--------------------------------------------"
Separator == [i \in 1..SeparatorWidth |-> "-"]

Lecture == <<"L", "e", "c", "t", "u", "r", "e", ":">>
NoSeriesTracked ==
    <<"[", "N", "o", " ", "s", "e", "r", "i", "e", "s", " ",
      "t", "r", "a", "c", "k", "e", "d", "]">>

\* A variant that compares the names as they are, capitals first.
SortedLowerCaseSensitive(names) == Sorted(names)

\* sorted(names, key=str.lower)
RECURSIVE SortedLower(_)
SortedLower(names) ==
    IF names = {} THEN <<>>
    ELSE LET first == CHOOSE n \in names : \A m \in names : ~StrLess(Lower(m), Lower(n))
         IN  <<first>> \o SortedLower(names \ {first})

\* f"{series}- ep: {chapter}" and its three blank lines
SeriesLines(series, info) ==
    << series \o <<"-", " ", "e", "p", ":", " ">> \o FloatRepr(Get(info, "chapter", Zero)),
       <<>>, <<>>, <<>> >>

RECURSIVE EntryLines(_, _)
EntryLines(data, series) ==
    IF series = <<>> THEN <<>>
    ELSE SeriesLines(series[1], data[series[1]]) \o EntryLines(data, Tail(series))

\* A variant that emits the header of a category that has no record.
CategoryBlockAlways(data, category_name) ==
    << category_name \o <<" ", ":">>, <<>>, <<>>, <<>> >>
    \o EntryLines(data, SortedLower(Grouped(data, category_name)))
    \o << Separator, <<>>, <<>>, <<>> >>

\* The lines one category adds: none when no record is grouped under it, else
\* its header, its records and a separator.
CategoryBlock(data, category_name) ==
    LET series_in_category == SortedLower(Grouped(data, category_name))
    IN  IF series_in_category = <<>> THEN <<>>
        ELSE << category_name \o <<" ", ":">>, <<>>, <<>>, <<>> >>
             \o EntryLines(data, series_in_category)
             \o << Separator, <<>>, <<>>, <<>> >>

\* while output_lines and output_lines[-1] == "": output_lines.pop()
RECURSIVE PopBlank(_)
PopBlank(output_lines) ==
    IF output_lines # <<>> /\ output_lines[Len(output_lines)] = <<>>
    THEN PopBlank(SubSeq(output_lines, 1, Len(output_lines) - 1))
    ELSE output_lines

\* if output_lines and output_lines[-1] == separator: output_lines.pop()
PopSeparator(output_lines) ==
    IF output_lines # <<>> /\ output_lines[Len(output_lines)] = Separator
    THEN SubSeq(output_lines, 1, Len(output_lines) - 1)
    ELSE output_lines

\* output_lines when the function returns
OutputLines(data) ==
    PopSeparator(PopBlank(
        << Lecture, <<>>, <<>>, <<>>, Separator, <<>>, <<>> >>
        \o CategoryBlock(data, CATEGORIES[1]) \o CategoryBlock(data, CATEGORIES[2])
        \o CategoryBlock(data, CATEGORIES[3]) \o CategoryBlock(data, CATEGORIES[4])))

\* The dict when format_data_to_text returns: as in the view, the fallback to
\* "Other" is a local name and the infos are only read.
DataAfterExport(data) == [n \in DOMAIN data |-> data[n]]

format_data_to_text(data) ==
    IF DOMAIN data = {}
    THEN Join(<<"\n">>, << Lecture, <<>>, Separator, <<>>, NoSeriesTracked >>)
    ELSE Join(<<"\n">>, OutputLines(data))

(***************************************************************************)
(* parse_series_data (src/unnamed/part_000)                                *)
(***************************************************************************)
RECURSIVE SkipSpace(_)
SkipSpace(s) == IF s # <<>> /\ s[1] \in Whitespace THEN SkipSpace(Tail(s)) ELSE s

StartsWith(s, prefix) == Len(s) >= Len(prefix) /\ SubSeq(s, 1, Len(prefix)) = prefix
Drop(s, n) == SubSeq(s, n + 1, Len(s))

\* What \s*-\s*ep:\s*([\d\.]+)$ captures on s when it matches all of s, and
\* <<>> when it does not.
TailMatch(s) ==
    LET a == SkipSpace(s)
        b == IF StartsWith(a, <<"-">>) THEN SkipSpace(Drop(a, 1)) ELSE <<>>
        c == IF StartsWith(b, <<"e", "p", ":">>) THEN SkipSpace(Drop(b, 3)) ELSE <<>>
    IN  IF c # <<>> /\ \A i \in 1..Len(c) : IsDigit(c[i]) \/ c[i] = "."
        THEN c ELSE <<>>

\* SERIES_LINE_PATTERN.match(line): group 1 is the shortest non-empty prefix
\* after which the rest of the pattern matches to the end of the line.
SeriesLineMatch(line) ==
    LET ends == {i \in 1..Len(line) : TailMatch(Drop(line, i)) # <<>>}
    IN  IF ends = {}
        THEN [matched |-> FALSE, name |-> <<>>, chapter |-> <<>>]
        ELSE LET i == CHOOSE e \in ends : \A f \in ends : e <= f
             IN  [matched |-> TRUE, name |-> SubSeq(line, 1, i), chapter |-> TailMatch(Drop(line, i))]

\* A variant that starts under the first category.
DefaultCategoryFirst == Manga

\* current_category = "Other"
DefaultCategory == Other

\* line.endswith(':')
IsColonLine(line) == EndsWith(line, <<":">>)

\* The category a colon-terminated line switches to: line.split(':')[0].strip()
\* when that is one of the four names, else the category stays.
HeaderSwitch(line, current_category) ==
    LET category_name == Strip(Split(line, ":")[1])
    IN  IF category_name \in {Manga, Manhwa, Manhua, Other} THEN category_name
        ELSE current_category

\* '-----' in line
HasSeparatorToken(line) == Contains(line, <<"-", "-", "-", "-", "-">>)

\* One turn of the loop over the lines: st holds series_data and
\* current_category.
ParseLine(st, raw) ==
    LET line == Strip(raw)
        m == SeriesLineMatch(line)
        number == ParseFloat(Strip(m.chapter))
    IN  IF line = <<>> \/ HasSeparatorToken(line) THEN st
        ELSE IF IsColonLine(line)
             THEN [st EXCEPT !.current_category = HeaderSwitch(line, st.current_category)]
        ELSE IF m.matched /\ number.ok
             THEN [st EXCEPT !.series_data =
                       Put(st.series_data, Strip(m.name), Info(number.val, st.current_category))]
        ELSE st

RECURSIVE ParseLines(_, _)
ParseLines(st, lines) ==
    IF lines = <<>> THEN st ELSE ParseLines(ParseLine(st, lines[1]), Tail(lines))

\* lines = text_content.strip().split('\n')
TextLines(text) == Split(Strip(text), "\n")

parse_series_data(text) ==
    ParseLines([series_data |-> EmptyDict, current_category |-> DefaultCategory],
               TextLines(text)).series_data

\* series_data and current_category when the loop is entered.
ParseStart == [series_data |-> EmptyDict, current_category |-> DefaultCategory]

\* series_data and current_category after each turn of the loop: element i is
\* what the loop holds once line i is processed.
ParseTrace(text) ==
    LET lines == TextLines(text)
    IN  [i \in 1..Len(lines) |-> ParseLines(ParseStart, SubSeq(lines, 1, i))]

(***************************************************************************)
(* The inputs of the model.                                                *)
(***************************************************************************)
\* Series names.  No two are equal up to case, so the order sorted() leaves
\* between equal keys (the dict's insertion order) never shows.
Names == {<<"B">>, <<"a">>, <<"a", "-", "-", "-", "-", "-", "b">>}

\* What is typed at "Enter Current Chapter".
ChapterInputPool ==
    << <<"5">>, <<"1", "2", ".", "5">>, <<"-", "1">>, <<"a", "b", "c">>, <<"n", "a", "n">>,
       <<"-", "0">>, <<>>, <<"i", "n", "f">>, <<" ", "7", " ">> >>
ChapterInputs == {ChapterInputPool[i] : i \in 1..MaxChapterInputs}

\* What is typed at "Enter Category".
CategoryInputs == Range(CATEGORIES) \cup {<<"m", "a", "n", "g", "a">>}

\* What List.json may hold when a session starts.
DocumentPool ==
    << Absent,
       Corrupt,
       Json([n \in {<<"a">>} |-> Info(Num(FALSE, 50), Manga)]),
       Json([n \in {<<"B">>} |-> [chapter |-> Num(FALSE, 30)]]),
       Json([n \in {<<"a">>} |-> Info(Num(FALSE, 125), Uncategorized)]),
       Json([n \in {<<"B">>} |-> [category |-> Manhua]]) >>
Documents == {DocumentPool[i] : i \in 1..MaxDocuments}

(***************************************************************************)
(* The texts the importer is given.                                        *)
(***************************************************************************)
\* The scenario of the specification.
TextScenario ==
    <<"M", "a", "n", "g", "a", " ", ":", "\n", "F", "o", "o", " ">>
    \o <<"-", " ", "e", "p", ":", " ", "3", "\n", "M", "a", "n", "h">>
    \o <<"w", "a", " ", ":", "\n", "B", "a", "r", " ", "-", " ", "e">>
    \o <<"p", ":", " ", "1", ".", "5", "\n">>

\* A series line before any header.
TextNoHeader ==
    <<"a", " ", "-", " ", "e", "p", ":", " ", "3", "\n", "M", "a">>
    \o <<"n", "h", "u", "a", " ", ":", "\n", "B", "-", " ", "e", "p">>
    \o <<":", " ", "5">>

\* Colon-terminated lines that name no category.
TextLowerHeader ==
    <<"M", "a", "n", "g", "a", " ", ":", "\n", "m", "a", "n", "g">>
    \o <<"a", " ", ":", "\n", "a", " ", "-", " ", "e", "p", ":", " ">>
    \o <<"1", "\n", "N", "o", "t", "e", "s", ":", "\n", "B", " ", "-">>
    \o <<" ", "e", "p", ":", " ", "2">>

\* A separator, a blank line, a line of no grammar and a chapter that is no number.
TextNoise ==
    <<"M", "a", "n", "h", "u", "a", " ", ":", "\n", "-", "-", "-">>
    \o <<"-", "-", "\n", "\n", "B", " ", "-", " ", "e", "p", ":", " ">>
    \o <<"2", ".", "5", "\n", "j", "u", "n", "k", "\n", "a", " ", "-">>
    \o <<" ", "e", "p", ":", " ", "1", ".", "2", ".", "3", "\n", " ">>
    \o <<" ", "a", "-", "e", "p", ":", "7">>

\* One name under two headers.
TextRepeated ==
    <<"M", "a", "n", "g", "a", " ", ":", "\n", "a", " ", "-", " ">>
    \o <<"e", "p", ":", " ", "1", "\n", "O", "t", "h", "e", "r", " ">>
    \o <<":", "\n", "a", " ", "-", " ", "e", "p", ":", " ", "2">>

\* Headers with text after the colon and without the blank before it.
TextLooseHeader ==
    <<"O", "t", "h", "e", "r", " ", ":", "\n", "M", "a", "n", "g">>
    \o <<"a", " ", ":", " ", "x", ":", "\n", "a", " ", "-", " ", "e">>
    \o <<"p", ":", " ", "4", "\n", "M", "a", "n", "h", "w", "a", ":">>
    \o <<"\n", "B", " ", "-", " ", "e", "p", ":", " ", "6">>

\* A series line whose name holds the separator token.
TextDashName ==
    <<"M", "a", "n", "h", "w", "a", " ", ":", "\n", "a", "-", "-">>
    \o <<"-", "-", "-", "b", " ", "-", " ", "e", "p", ":", " ", "7">>
    \o <<"\n", "B", " ", "-", " ", "e", "p", ":", " ", "8">>

\* An empty file.
TextEmpty == <<>>

TextPool ==
    << TextScenario, TextNoHeader, TextLowerHeader, TextNoise,
       TextRepeated, TextLooseHeader, TextDashName, TextEmpty >>
Texts == {TextPool[i] : i \in 1..MaxTexts}

NoCall == [op |-> "none"]
NoSession == [loaded |-> Absent, updated |-> FALSE, saved |-> FALSE]

(***************************************************************************)
(* Spec: the functions of the tracker called with any arguments on any     *)
(* dict a document can load to.                                            *)
(***************************************************************************)
Init ==
    /\ document \in Documents
    /\ series_data = load_series_data(document)
    /\ pc = "api"
    /\ last = NoCall
    /\ text_content = <<>>
    /\ parsed = EmptyDict
    /\ session = NoSession

CallUpdate(series_name, chapter_number, category) ==
    LET r == update_series_chapter(series_name, chapter_number, category,
                                   series_data, TRUE, document, "ok")
    IN  /\ last = NoCall
        /\ series_name \in DOMAIN series_data \/ Cardinality(DOMAIN series_data) < MaxRecords
        /\ series_data' = r.data
        /\ document' = r.doc
        /\ last' = [op |-> "update", series_name |-> series_name,
                    chapter_number |-> chapter_number, category |-> category,
                    before |-> series_data, ret |-> r.ret, printed |-> r.printed]
        /\ UNCHANGED <<pc, text_content, parsed, session>>

CallView ==
    /\ last = NoCall
    /\ last' = [op |-> "view", before |-> series_data, printed |-> view_all_series(series_data)]
    /\ series_data' = DataAfterView(series_data)
    /\ UNCHANGED <<document, pc, text_content, parsed, session>>

\* The importer's main on a text: the dict it parses is written to List.json,
\* which the tracker then loads.
CallImport(text) ==
    /\ last = NoCall
    /\ document' = Json(parse_series_data(text))
    /\ series_data' = load_series_data(document')
    /\ last' = [op |-> "import", before |-> series_data]
    /\ UNCHANGED <<pc, text_content, parsed, session>>

\* The caller is done with the result.  last only records what the latest
\* call did; the program never reads it.
Discard ==
    /\ last # NoCall
    /\ last' = NoCall
    /\ UNCHANGED <<series_data, document, pc, text_content, parsed, session>>

Next ==
    \/ \E n \in Names, c \in ChapterInputs, k \in CategoryInputs : CallUpdate(n, c, k)
    \/ CallView
    \/ \E t \in Texts : CallImport(t)
    \/ Discard

Spec == Init /\ [][Next]_vars

\* The same calls on a tracker that starts with no document, hence with an
\* empty dict.
InitEmpty ==
    /\ document = Absent
    /\ series_data = load_series_data(document)
    /\ pc = "api"
    /\ last = NoCall
    /\ text_content = <<>>
    /\ parsed = EmptyDict
    /\ session = NoSession

SpecFromEmpty == InitEmpty /\ [][Next]_vars

(***************************************************************************)
(* SpecCodec: the exporter and the importer applied to any dict of at most *)
(* MaxRecords records, and the importer applied to the texts of TextPool.  *)
(***************************************************************************)
CodecChapters == {Num(FALSE, 50), Num(FALSE, 125)}

\* The records a document may hold for a name: with a category of the
\* enumeration, with another category, or without the key.
CodecRecords ==
    {Info(c, k) : c \in CodecChapters, k \in Range(CATEGORIES) \cup {Uncategorized}}
    \cup {[chapter |-> c] : c \in CodecChapters}

CodecStores ==
    UNION {[D -> CodecRecords] : D \in {E \in SUBSET Names : Cardinality(E) <= MaxRecords}}

InitCodec ==
    /\ series_data \in CodecStores
    /\ document = Json(series_data)
    /\ pc = "codec"
    /\ last = NoCall
    /\ text_content = <<>>
    /\ parsed = EmptyDict
    /\ session = NoSession

\* The exporter's main: the text written to Lecture_out.md.
Export ==
    /\ last = NoCall
    /\ text_content' = format_data_to_text(series_data)
    /\ series_data' = DataAfterExport(series_data)
    /\ last' = [op |-> "export", before |-> series_data]
    /\ UNCHANGED <<document, pc, parsed, session>>

\* The importer run on the text the exporter just wrote.
ImportExported ==
    /\ last.op = "export"
    /\ parsed' = parse_series_data(text_content)
    /\ last' = [op |-> "reimport", trace |-> ParseTrace(text_content)]
    /\ UNCHANGED <<series_data, document, pc, text_content, session>>

\* The importer run on a text somebody edited.
ImportText(text) ==
    /\ last = NoCall
    /\ text_content' = text
    /\ parsed' = parse_series_data(text)
    /\ last' = [op |-> "import", trace |-> ParseTrace(text)]
    /\ UNCHANGED <<series_data, document, pc, session>>

\* The run is over: its text and its dict are gone.
CodecDone ==
    /\ last # NoCall
    /\ last' = NoCall
    /\ text_content' = <<>>
    /\ parsed' = EmptyDict
    /\ UNCHANGED <<series_data, document, pc, session>>

NextCodec ==
    \/ Export
    \/ ImportExported
    \/ \E t \in Texts : ImportText(t)
    \/ CallView
    \/ CodecDone

SpecCodec == InitCodec /\ [][NextCodec]_vars

(***************************************************************************)
(* SpecMenu: main_menu of src/Series_Tracker.py, from its start on any     *)
(* document to Exit and Save.  Every write succeeds.                       *)
(***************************************************************************)
\* What is typed at "Enter Series Name".
NameInputs == Names \cup {<<>>}
\* What is typed at "Enter Series Name (or part of the name)".
SearchTerms == {<<>>, <<"a">>, <<"b">>, <<"z">>}

\* A variant without the test for a known name: the former add-or-update.
handle_add_or_update_series(data, name_input, category_input, chapter_input, doc, write) ==
    LET series_name == Strip(name_input)
        r == update_series_chapter(series_name, Strip(chapter_input), Strip(category_input),
                                   data, TRUE, doc, write)
    IN  IF series_name = <<>>
        THEN [ret |-> FALSE, data |-> data, doc |-> doc, asked |-> FALSE, updated |-> FALSE,
              saved |-> FALSE, report |-> "none", raised |-> FALSE]
        ELSE [ret |-> r.ret, data |-> r.data, doc |-> r.doc, asked |-> TRUE, updated |-> r.ret,
              saved |-> r.saved, report |-> r.report, raised |-> r.raised]

\* handle_add_new_series_only: an empty or known name returns False before
\* anything else is asked; else the update runs and, when it succeeds, the
\* grouped view is printed.
handle_add_new_series_only(data, name_input, category_input, chapter_input, doc, write) ==
    LET series_name == Strip(name_input)
        r == update_series_chapter(series_name, Strip(chapter_input), Strip(category_input),
                                   data, TRUE, doc, write)
        early == [ret |-> FALSE, data |-> data, doc |-> doc, asked |-> FALSE, updated |-> FALSE,
                  saved |-> FALSE, report |-> "none", raised |-> FALSE]
    IN  IF series_name = <<>> THEN early
        ELSE IF series_name \in DOMAIN data THEN early
        ELSE [ret |-> r.ret, data |-> IF r.ret THEN DataAfterView(r.data) ELSE r.data,
              doc |-> r.doc, asked |-> TRUE, updated |-> r.ret,
              saved |-> r.saved, report |-> r.report, raised |-> r.raised]

\* matching_series: the sorted names that hold the search term, case ignored.
MatchingSeries(data, search_term) ==
    Sorted({n \in DOMAIN data : Contains(Lower(n), Lower(search_term))})

\* A variant that updates under the category the views file the record under.
FindUpdateCoercing(data, series_name, chapter_input, doc, write) ==
    update_series_chapter(series_name, Strip(chapter_input), GroupOf(data[series_name]),
                          data, TRUE, doc, write)

\* handle_find_series once a series is selected and "y" is answered: the
\* update with the stored category, "Uncategorized" when the key is missing.
FindUpdate(data, series_name, chapter_input, doc, write) ==
    LET current_category == Get(data[series_name], "category", Uncategorized)
    IN  update_series_chapter(series_name, Strip(chapter_input), current_category,
                              data, TRUE, doc, write)

InitMenu ==
    /\ document \in Documents
    /\ series_data = EmptyDict
    /\ pc = "start"
    /\ last = NoCall
    /\ text_content = <<>>
    /\ parsed = EmptyDict
    /\ session = NoSession

\* A variant of the start that replaces a document it cannot read.
MenuStartRepairing ==
    /\ pc = "start"
    /\ series_data' = load_series_data(document)
    /\ document' = IF document.kind = "corrupt" THEN Json(EmptyDict) ELSE document
    /\ session' = [loaded |-> document, updated |-> FALSE, saved |-> FALSE]
    /\ last' = [op |-> "load"]
    /\ pc' = "menu"
    /\ UNCHANGED <<text_content, parsed>>

\* series_data = load_series_data()
MenuStart ==
    /\ pc = "start"
    /\ series_data' = load_series_data(document)
    /\ session' = [loaded |-> document, updated |-> FALSE, saved |-> FALSE]
    /\ last' = [op |-> "load"]
    /\ pc' = "menu"
    /\ UNCHANGED <<document, text_content, parsed>>

AtPrompt == pc = "menu" /\ last = NoCall

\* choice '1'.  The category and the chapter are typed only when they are
\* asked for.  An exception that reaches main_menu ends the process.
MenuAdd(name_input, category_input, chapter_input, write) ==
    LET r == handle_add_new_series_only(series_data, name_input, category_input,
                                        chapter_input, document, write)
    IN  /\ AtPrompt
        /\ \/ Cardinality(DOMAIN series_data) < MaxRecords
           \/ Strip(name_input) \in DOMAIN series_data \cup {<<>>}
        /\ series_data' = r.data
        /\ document' = r.doc
        /\ session' = [session EXCEPT !.updated = @ \/ r.updated, !.saved = @ \/ r.saved]
        /\ last' = [op |-> "add", series_name |-> Strip(name_input), asked |-> r.asked,
                    category |-> IF r.asked THEN Strip(category_input) ELSE <<>>,
                    chapter_number |-> IF r.asked THEN Strip(chapter_input) ELSE <<>>,
                    write |-> write, before |-> series_data, doc_before |-> document,
                    ret |-> r.ret, saved |-> r.saved, report |-> r.report]
        /\ pc' = IF r.raised THEN "crashed" ELSE pc
        /\ UNCHANGED <<text_content, parsed>>

\* choice '2'
MenuView ==
    /\ AtPrompt
    /\ last' = [op |-> "view", before |-> series_data, printed |-> view_all_series(series_data)]
    /\ series_data' = DataAfterView(series_data)
    /\ UNCHANGED <<document, pc, text_content, parsed, session>>

\* choice '3' left without an update: the term is empty or matches nothing,
\* ENTER is pressed at the selection, or the answer is not "y".
MenuFindOnly(search_term) ==
    /\ AtPrompt
    /\ last' = [op |-> "find", before |-> series_data, ret |-> FALSE,
                matching |-> IF Strip(search_term) = <<>> THEN <<>>
                             ELSE MatchingSeries(series_data, Strip(search_term))]
    /\ UNCHANGED <<series_data, document, pc, text_content, parsed, session>>

\* choice '3' with a series selected and "y" answered.
MenuFindUpdate(search_term, selection, chapter_input, write) ==
    LET matching_series == MatchingSeries(series_data, Strip(search_term))
        series_name == matching_series[selection]
        r == FindUpdate(series_data, series_name, chapter_input, document, write)
    IN  /\ AtPrompt
        /\ Strip(search_term) # <<>>
        /\ selection \in 1..Len(matching_series)
        /\ series_data' = r.data
        /\ document' = r.doc
        /\ session' = [session EXCEPT !.updated = @ \/ r.ret, !.saved = @ \/ r.saved]
        /\ last' = [op |-> "find_update", series_name |-> series_name,
                    chapter_number |-> Strip(chapter_input),
                    write |-> write, before |-> series_data, doc_before |-> document,
                    ret |-> r.ret, saved |-> r.saved, report |-> r.report]
        /\ pc' = IF r.raised THEN "crashed" ELSE pc
        /\ UNCHANGED <<text_content, parsed>>

\* choice '4'
MenuExit(write) ==
    /\ AtPrompt
    /\ document' = save_series_data(series_data, document, write)
    /\ session' = [session EXCEPT !.saved = TRUE]
    /\ pc' = IF SaveOutcome(write) = "raised" THEN "crashed" ELSE "exited"
    /\ last' = [op |-> "exit", write |-> write, report |-> SaveOutcome(write)]
    /\ UNCHANGED <<series_data, text_content, parsed>>

\* any other choice
MenuInvalidChoice ==
    /\ AtPrompt
    /\ last' = [op |-> "invalid_choice"]
    /\ UNCHANGED <<series_data, document, pc, text_content, parsed, session>>

\* The loop comes round: the menu is printed again.
MenuAgain ==
    /\ pc = "menu"
    /\ last # NoCall
    /\ last' = NoCall
    /\ UNCHANGED <<series_data, document, pc, text_content, parsed, session>>

NextMenu ==
    \/ MenuStart
    \/ \E n \in NameInputs, k \in CategoryInputs, c \in ChapterInputs : MenuAdd(n, k, c, "ok")
    \/ MenuView
    \/ \E t \in SearchTerms : MenuFindOnly(t)
    \/ \E t \in SearchTerms, i \in 1..MaxRecords, c \in ChapterInputs :
          MenuFindUpdate(t, i, c, "ok")
    \/ MenuExit("ok")
    \/ MenuInvalidChoice
    \/ MenuAgain

SpecMenu == InitMenu /\ [][NextMenu]_vars

(***************************************************************************)
(* SpecMenuFaulty: main_menu on a disk that may refuse a write.  open() may *)
(* fail, which leaves the file as it is, or json.dump may fail after the   *)
(* file was truncated.                                                     *)
(***************************************************************************)
Writes == {"ok", "open_fails", "dump_fails"}

\* What is typed in these sessions: fewer names, categories and chapters than
\* in SpecMenu, since the file now varies apart from the dict.
FaultyNameInputs == {<<"a">>, <<"B">>, <<>>}
FaultyCategoryInputs == {Manga, Other, <<"m", "a", "n", "g", "a">>}
FaultyChapterInputs == {<<"5">>, <<"-", "1">>}
FaultySearchTerms == {<<"a">>, <<"b">>}

NextMenuFaulty ==
    \/ MenuStart
    \/ \E n \in FaultyNameInputs, k \in FaultyCategoryInputs, c \in FaultyChapterInputs,
          w \in Writes :
          MenuAdd(n, k, c, w)
    \/ MenuView
    \/ \E t \in FaultySearchTerms : MenuFindOnly(t)
    \/ \E t \in FaultySearchTerms, i \in 1..MaxRecords, c \in FaultyChapterInputs,
          w \in Writes :
          MenuFindUpdate(t, i, c, w)
    \/ \E w \in Writes : MenuExit(w)
    \/ MenuInvalidChoice
    \/ MenuAgain

SpecMenuFaulty == InitMenu /\ [][NextMenuFaulty]_vars

(***************************************************************************)
(* The claims about update_series_chapter, checked under Spec.             *)
(***************************************************************************)
IsUpdate == last.op = "update"
ValidCategory(category) == \E i \in 1..Len(CATEGORIES) : CATEGORIES[i] = category

\* The chapter input reads as a number that is >= 0 (NaN is not).
ParsesNonNegative(chapter_number) ==
    LET p == ParseFloat(chapter_number)
    IN  p.ok /\ p.val.k # "nan" /\ ~FloatLt(p.val, Zero)

\* The chapter input reads as a number below zero.
ParsesNegative(chapter_number) ==
    LET p == ParseFloat(chapter_number)
    IN  p.ok /\ FloatLt(p.val, Zero)

Unparsable(chapter_number) == ~ParseFloat(chapter_number).ok

\* C1: a call with a chapter input that parses to a number >= 0 and a category
\* of the enumeration returns True and leaves the dict mapping the name to
\* exactly (parsed chapter, category), whatever the dict held for the name.
C1_ValidUpdateIsStored ==
    (IsUpdate /\ ValidCategory(last.category) /\ ParsesNonNegative(last.chapter_number))
    => /\ last.ret = TRUE
       /\ last.series_name \in DOMAIN series_data
       /\ series_data[last.series_name]
            = [chapter |-> ParseFloat(last.chapter_number).val, category |-> last.category]

\* The name was present with a higher chapter and another category, and the
\* call wrote the lower chapter.
C1_Witness ==
    /\ IsUpdate
    /\ last.ret = TRUE
    /\ ParsesNonNegative(last.chapter_number)
    /\ last.series_name \in DOMAIN last.before
    /\ DOMAIN last.before[last.series_name] = {"chapter", "category"}
    /\ FloatLt(ParseFloat(last.chapter_number).val, last.before[last.series_name].chapter)
    /\ last.before[last.series_name].category # last.category

\* C3: with a category of the enumeration, a chapter input that is negative or
\* does not parse returns False and leaves the dict as it was.
C3_InvalidChapterRejected ==
    (/\ IsUpdate
     /\ ValidCategory(last.category)
     /\ ParsesNegative(last.chapter_number) \/ Unparsable(last.chapter_number))
    => last.ret = FALSE /\ series_data = last.before

\* A negative chapter was refused on a dict that holds records.
C3_Witness ==
    /\ IsUpdate
    /\ ValidCategory(last.category)
    /\ ParsesNegative(last.chapter_number)
    /\ last.series_name \in DOMAIN last.before
    /\ last.ret = FALSE

\* C4: a category outside the enumeration returns False and leaves the dict as
\* it was, whatever the name and the chapter input.
C4_InvalidCategoryRejected ==
    (IsUpdate /\ ~ValidCategory(last.category))
    => last.ret = FALSE /\ series_data = last.before

\* A category outside the enumeration was refused although the chapter was fine
\* and the name was tracked.
C4_Witness ==
    /\ IsUpdate
    /\ ~ValidCategory(last.category)
    /\ ParsesNonNegative(last.chapter_number)
    /\ last.series_name \in DOMAIN last.before
    /\ last.ret = FALSE

Outcomes == {"Created", "Advanced", "CorrectedDown", "CategoryChangedOnly", "Unchanged"}

\* C7: after a successful call the message is Created when the name was
\* absent; otherwise Advanced when new > old, CorrectedDown when new < old,
\* CategoryChangedOnly when new == old and the category differs from the stored
\* one, Unchanged when new == old and the category is the stored one; Advanced
\* and CorrectedDown mention a category change exactly when the category differs
\* from the stored one; the message is one of the five.  "old" and "the stored
\* one" are the fields of the record the dict held, when it held them.
C7_OutcomeClassified ==
    (IsUpdate /\ last.ret = TRUE)
    => LET new == ParseFloat(last.chapter_number).val
           present == last.series_name \in DOMAIN last.before
           old == last.before[last.series_name]
           has_chapter == "chapter" \in DOMAIN old
           has_category == "category" \in DOMAIN old
           differs == has_category /\ old.category # last.category
           same == has_category /\ old.category = last.category
           kind == last.printed.kind
       IN  /\ kind \in Outcomes
           /\ (kind = "Created") <=> ~present
           /\ (present /\ has_chapter)
              => /\ FloatLt(old.chapter, new) => kind = "Advanced"
                 /\ FloatLt(new, old.chapter) => kind = "CorrectedDown"
                 /\ (FloatEq(new, old.chapter) /\ differs) => kind = "CategoryChangedOnly"
                 /\ (FloatEq(new, old.chapter) /\ same) => kind = "Unchanged"
           /\ (present /\ kind \in {"Advanced", "CorrectedDown"})
              => (last.printed.category_change <=> differs)

\* The scenario of the specification: X at chapter 5 under Manga, updated to
\* "5" under Manhwa, reports CategoryChangedOnly and stores (5, Manhwa).
C7_Witness ==
    /\ IsUpdate
    /\ last.ret = TRUE
    /\ last.series_name \in DOMAIN last.before
    /\ last.before[last.series_name] = [chapter |-> Num(FALSE, 50), category |-> Manga]
    /\ last.chapter_number = <<"5">>
    /\ last.category = Manhwa
    /\ last.printed.kind = "CategoryChangedOnly"
    /\ series_data[last.series_name] = [chapter |-> Num(FALSE, 50), category |-> Manhwa]

(***************************************************************************)
(* The claims about the codec, checked under SpecCodec, and the chapter    *)
(* invariant, checked under SpecFromEmpty.                                 *)
(***************************************************************************)
\* A dict of the data model: every record has a finite chapter >= 0 and a
\* category of the enumeration.
WellFormed(data) ==
    \A n \in DOMAIN data :
        /\ DOMAIN data[n] = {"chapter", "category"}
        /\ data[n].chapter.k = "num"
        /\ ~data[n].chapter.neg
        /\ ValidCategory(data[n].category)

Triples(data) == {<<n, data[n].chapter, data[n].category>> : n \in DOMAIN data}

\* C2: decoding the text the exporter produces for a dict yields a dict with
\* the same (name, chapter, category) triples.
C2_RoundTrip ==
    (last.op = "reimport" /\ WellFormed(series_data))
    => Triples(parsed) = Triples(series_data)

\* C5: starting from an empty dict, after any calls of update_series_chapter
\* and any decodes, every record has a chapter >= 0.
C5_ChaptersNonNegative ==
    \A n \in DOMAIN series_data :
        "chapter" \in DOMAIN series_data[n]
        => /\ series_data[n].chapter.k # "nan"
           /\ ~FloatLt(series_data[n].chapter, Zero)

\* The header line of a category in the export.
ExportHeader(category) == category \o <<" ", ":">>
\* The line of a record in the export.
ExportLine(name, info) ==
    name \o <<"-", " ", "e", "p", ":", " ">>
    \o FloatRepr(IF "chapter" \in DOMAIN info THEN info.chapter ELSE Zero)

\* The category a record is listed under: its own when that is one of the
\* four, else Other.
ListedUnder(info) ==
    IF "category" \in DOMAIN info /\ ValidCategory(info.category) THEN info.category ELSE Other

CategoryIndex(category) == CHOOSE i \in 1..Len(CATEGORIES) : CATEGORIES[i] = category

\* The index of the nearest header before line i of lines, 0 when none;
\* IsHeader(l) tells a header line.
HeaderBefore(headers, i) ==
    IF {j \in headers : j < i} = {} THEN 0
    ELSE CHOOSE j \in headers : j < i /\ \A h \in headers : h < i => h <= j

\* C6 for the export: the headers come in the order Manga, Manhwa, Manhua,
\* Other, a category has a header exactly when a record is listed under it,
\* and every record has exactly one line, under the header of its category.
ExportGrouped(data, text) ==
    LET lines == Split(text, "\n")
        headers == {i \in 1..Len(lines) : \E c \in Range(CATEGORIES) : lines[i] = ExportHeader(c)}
        cat(i) == CHOOSE c \in Range(CATEGORIES) : lines[i] = ExportHeader(c)
    IN  /\ \A i, j \in headers : i < j => CategoryIndex(cat(i)) < CategoryIndex(cat(j))
        /\ \A c \in Range(CATEGORIES) :
              (\E i \in headers : cat(i) = c) <=> (\E n \in DOMAIN data : ListedUnder(data[n]) = c)
        /\ \A n \in DOMAIN data :
              LET at == {i \in 1..Len(lines) : lines[i] = ExportLine(n, data[n])}
              IN  /\ Cardinality(at) = 1
                  /\ \A i \in at : /\ HeaderBefore(headers, i) # 0
                                   /\ cat(HeaderBefore(headers, i)) = ListedUnder(data[n])

\* C6 for the grouped view: the same of the lines view_all_series prints.
ViewGrouped(data, printed) ==
    LET headers == {i \in 1..Len(printed) : printed[i].kind = "header"}
    IN  /\ \A i, j \in headers :
              i < j => CategoryIndex(printed[i].category) < CategoryIndex(printed[j].category)
        /\ \A c \in Range(CATEGORIES) :
              (\E i \in headers : printed[i].category = c)
              <=> (\E n \in DOMAIN data : ListedUnder(data[n]) = c)
        /\ \A n \in DOMAIN data :
              LET at == {i \in 1..Len(printed) : printed[i].kind = "entry" /\ printed[i].series = n}
              IN  /\ Cardinality(at) = 1
                  /\ \A i \in at : /\ HeaderBefore(headers, i) # 0
                                   /\ printed[HeaderBefore(headers, i)].category = ListedUnder(data[n])

\* C6: for every non-empty dict the export and the grouped view emit the
\* category headers in the fixed order, a header exactly for the categories
\* that have a record, and every record under exactly one header.
C6_GroupedInFixedOrder ==
    /\ (last.op = "export" /\ DOMAIN series_data # {})
       => ExportGrouped(series_data, text_content)
    /\ (last.op = "view" /\ DOMAIN series_data # {})
       => ViewGrouped(series_data, last.printed)

\* An export of two records of which one has a category outside the
\* enumeration: two headers at most, Other among them.
C6_Witness ==
    /\ last.op = "export"
    /\ Cardinality(DOMAIN series_data) = 2
    /\ \E n, m \in DOMAIN series_data :
          /\ ListedUnder(series_data[n]) = Manhwa
          /\ "category" \in DOMAIN series_data[m]
          /\ series_data[m].category = Uncategorized
    /\ ExportGrouped(series_data, text_content)

\* The lines of a text as the importer sees them (each stripped).
StrippedLines(text) ==
    LET lines == Split(Strip(text), "\n") IN [i \in 1..Len(lines) |-> Strip(lines[i])]

\* Line l is skipped before any grammar is tried.
SkippedLine(l) == l = <<>> \/ Contains(l, <<"-", "-", "-", "-", "-">>)

\* Line l is a category header: it ends with a colon and what stands before
\* its first colon names a category.
HeaderLine(l) ==
    /\ ~SkippedLine(l)
    /\ l[Len(l)] = ":"
    /\ ValidCategory(Strip(Split(l, ":")[1]))
HeaderName(l) == Strip(Split(l, ":")[1])

\* Line l is a series line that is decoded, and the name it is decoded to.
DecodedLine(l) ==
    /\ ~SkippedLine(l)
    /\ l[Len(l)] # ":"
    /\ SeriesLineMatch(l).matched
    /\ ParseFloat(Strip(SeriesLineMatch(l).chapter)).ok
DecodedName(l) == Strip(SeriesLineMatch(l).name)

\* C8: every decoded series line is stored with the category of the most
\* recent category header before it, and with Other when none precedes it.
\* (A name decoded twice keeps the record of its last line.)
C8_ActiveCategoryStored ==
    (last.op = "import")
    => LET lines == StrippedLines(text_content)
           headers == {i \in 1..Len(lines) : HeaderLine(lines[i])}
           decoded == {i \in 1..Len(lines) : DecodedLine(lines[i])}
       IN  /\ DOMAIN parsed = {DecodedName(lines[i]) : i \in decoded}
           /\ \A i \in decoded :
                 (\A j \in decoded : DecodedName(lines[j]) = DecodedName(lines[i]) => j <= i)
                 => parsed[DecodedName(lines[i])].category
                      = IF HeaderBefore(headers, i) = 0 THEN Other
                        ELSE HeaderName(lines[HeaderBefore(headers, i)])

\* A text with a series line before any header and one after a header was
\* decoded: the first is under Other, the second under the header's category.
C8_Witness ==
    /\ last.op = "import"
    /\ text_content = TextNoHeader
    /\ parsed[<<"a">>].category = Other
    /\ parsed[<<"B">>].category = Manhua

(***************************************************************************)
(* The claims about loading and saving, checked under SpecMenu.            *)
(***************************************************************************)
LoadedUnreadable == session.loaded.kind \in {"absent", "corrupt"}

\* load_series_data returns an empty dict for an absent or malformed document
\* and writes nothing.
LoadReadsOnly ==
    (last.op = "load")
    => /\ document = session.loaded
       /\ LoadedUnreadable => series_data = EmptyDict

\* C9 as stated: load returns an empty dict for an absent or malformed
\* document and never writes it, and after a corrupt document was found the
\* file stays as it was until Exit and Save; the auto-save that follows an
\* update does not touch it.
C9_CorruptKeptUntilExit ==
    /\ LoadReadsOnly
    /\ (pc = "menu" /\ session.loaded.kind = "corrupt") => document = session.loaded

\* C9 amended: load returns an empty dict for an absent or malformed document
\* and never writes it, and after a corrupt document was found the file stays
\* as it was until the next save, which is the auto-save of the first
\* successful update or the save of Exit and Save.
C9_CorruptKeptUntilSave ==
    /\ LoadReadsOnly
    /\ (session.loaded.kind = "corrupt" /\ ~session.saved) => document = session.loaded

\* A corrupt document was loaded, an Add was asked for and refused, and the
\* file is still the corrupt one.
C9_Witness ==
    /\ session.loaded.kind = "corrupt"
    /\ last.op = "add"
    /\ last.asked
    /\ last.ret = FALSE
    /\ series_data = EmptyDict
    /\ document = Corrupt

\* C10: with every write succeeding, the document equals the dict at every
\* menu prompt that follows a successful update, and after Exit; so it holds
\* no record the dict does not hold.
C10_DocumentEqualsStore ==
    /\ (pc = "menu" /\ session.updated) => document = Json(series_data)
    /\ pc = "exited" => document = Json(series_data)

\* Two updates succeeded on top of a loaded record and the tracker was left
\* through Exit: the document is the dict.
C10_Witness ==
    /\ pc = "exited"
    /\ session.updated
    /\ session.loaded.kind = "json"
    /\ Cardinality(DOMAIN series_data) = 2
    /\ series_data # session.loaded.data
    /\ document = Json(series_data)

(***************************************************************************)
(* The claims about the lines the importer reads, checked under SpecCodec. *)
(***************************************************************************)
\* The importer has just run, on an edited text or on an exported one.
Imported == last.op \in {"import", "reimport"}

\* series_data and current_category before line i of an import is processed.
StateBefore(i) == IF i = 1 THEN ParseStart ELSE last.trace[i - 1]

\* Line l has the exact form "<CategoryName> :".
ExactHeader(l) == \E c \in Range(CATEGORIES) : l = c \o <<" ", ":">>

\* C11: the active category changes only on a line of the exact form
\* "<CategoryName> :" with CategoryName one of Manga, Manhwa, Manhua, Other;
\* every other line leaves the active category as it was, a colon-terminated
\* line with further text or colons after a category name included.
C11_OnlyExactHeaderSwitches ==
    Imported
    => LET lines == StrippedLines(text_content)
       IN  \A i \in 1..Len(lines) :
              ~ExactHeader(lines[i])
              => last.trace[i].current_category = StateBefore(i).current_category

\* Line l matches the series-line grammar "<name> - ep: <number>": a non-empty
\* name and a decimal literal.
SeriesGrammar(l) ==
    /\ SeriesLineMatch(l).matched
    /\ ParseDecimal(FALSE, SeriesLineMatch(l).chapter).ok

\* The first half of C12 with a header taken as the importer takes it: a
\* blank line, a separator line and a line of neither grammar leave the active
\* category and the records as they were.
SkippedLinesChangeNothing ==
    Imported
    => LET lines == StrippedLines(text_content)
       IN  \A i \in 1..Len(lines) :
              (SkippedLine(lines[i]) \/ (~HeaderLine(lines[i]) /\ ~SeriesGrammar(lines[i])))
              => last.trace[i] = StateBefore(i)

\* The second half of C12: a line that matches the series-line grammar is
\* always decoded, so its record is in the dict once the line is processed,
\* under the category then active.
SeriesLinesDecoded ==
    Imported
    => LET lines == StrippedLines(text_content)
       IN  \A i \in 1..Len(lines) :
              SeriesGrammar(lines[i])
              => /\ DecodedName(lines[i]) \in DOMAIN last.trace[i].series_data
                 /\ last.trace[i].series_data[DecodedName(lines[i])]
                      = Info(ParseFloat(SeriesLineMatch(lines[i]).chapter).val,
                             StateBefore(i).current_category)

\* C12: a blank line, a separator line and a line that matches neither the
\* category-header nor the series-line grammar leave the active category and
\* the records decoded so far unchanged; only such lines are passed over, so a
\* line that matches the series-line grammar is always decoded.
C12_OnlyNoiseIsSkipped ==
    /\ Imported
       => LET lines == StrippedLines(text_content)
          IN  \A i \in 1..Len(lines) :
                 (\/ SkippedLine(lines[i])
                  \/ (~ExactHeader(lines[i]) /\ ~SeriesGrammar(lines[i])))
                 => last.trace[i] = StateBefore(i)
    /\ SeriesLinesDecoded

(***************************************************************************)
(* The claims about the layout and the order of the export and of the      *)
(* grouped view, checked under SpecCodec.                                  *)
(***************************************************************************)
Exported == last.op = "export" /\ DOMAIN series_data # {}

\* The lines of the exported text that are category headers.
ExportHeaders(lines) ==
    {i \in 1..Len(lines) : \E c \in Range(CATEGORIES) : lines[i] = ExportHeader(c)}

\* The first half of C13: between the header of a block and the header of the
\* next block stands exactly one separator line.
OneSeparatorBetweenBlocks ==
    Exported
    => LET lines == Split(text_content, "\n")
           headers == ExportHeaders(lines)
       IN  \A h \in headers : \A g \in headers :
              (h < g /\ \A k \in headers : ~(h < k /\ k < g))
              => Cardinality({i \in h..g : lines[i] = Separator}) = 1

\* The second half of C13 for separators: no separator line follows the last
\* block, so the text does not end with one.
NoSeparatorAfterLastBlock ==
    Exported
    => LET lines == Split(text_content, "\n")
           headers == ExportHeaders(lines)
       IN  /\ \A h \in headers :
                 (\A g \in headers : g <= h)
                 => \A i \in h..Len(lines) : lines[i] # Separator
           /\ lines[Len(lines)] # Separator

\* C13: the text exported for a non-empty dict has exactly one separator line
\* after each category block that is followed by another block, and it ends
\* neither with a separator line nor with blank lines.
C13_SeparatorsAndTrimmedEnd ==
    /\ OneSeparatorBetweenBlocks
    /\ NoSeparatorAfterLastBlock
    /\ Exported
       => LET lines == Split(text_content, "\n")
          IN  lines[Len(lines)] # <<>>

\* Name n does not come after name m when case is ignored.
LowerLeq(n, m) == ~StrLess(Lower(m), Lower(n))

\* C14: within each category block of the export the records stand in
\* ascending order of their names compared without regard to case.
C14_ExportSortedIgnoringCase ==
    Exported
    => LET lines == Split(text_content, "\n")
           at(n) == CHOOSE i \in 1..Len(lines) : lines[i] = ExportLine(n, series_data[n])
       IN  \A n, m \in DOMAIN series_data :
              (ListedUnder(series_data[n]) = ListedUnder(series_data[m]) /\ at(n) < at(m))
              => LowerLeq(n, m)

\* An export with "a" and "B" in one block: "a" stands before "B", although
\* "B" is the lower one by code point.
C14_Witness ==
    /\ Exported
    /\ DOMAIN series_data = {<<"a">>, <<"B">>}
    /\ ListedUnder(series_data[<<"a">>]) = ListedUnder(series_data[<<"B">>])
    /\ LET lines == Split(text_content, "\n")
       IN  \E i, j \in 1..Len(lines) :
              /\ i < j
              /\ lines[i] = ExportLine(<<"a">>, series_data[<<"a">>])
              /\ lines[j] = ExportLine(<<"B">>, series_data[<<"B">>])

\* C15: view_all_series lists the records of a category as the export does,
\* in ascending order of their names compared without regard to case.
C15_ViewSortedIgnoringCase ==
    (last.op = "view")
    => LET printed == last.printed
           entries == {i \in 1..Len(printed) : printed[i].kind = "entry"}
       IN  \A i, j \in entries :
              (/\ i < j
               /\ ListedUnder(series_data[printed[i].series])
                    = ListedUnder(series_data[printed[j].series]))
              => LowerLeq(printed[i].series, printed[j].series)

\* The record has no category, or one outside the enumeration.
Uncategorised(info) == "category" \notin DOMAIN info \/ ~ValidCategory(info.category)

\* C16: a record whose category is missing or outside the enumeration is
\* listed under Other by the grouped view and by the export, and neither call
\* modifies the dict: every record, its stored category included, is after
\* the call what it was before.
C16_CoercedOnlyForDisplay ==
    /\ (last.op = "view")
       => /\ series_data = last.before
          /\ LET printed == last.printed
                 headers == {i \in 1..Len(printed) : printed[i].kind = "header"}
             IN  \A n \in DOMAIN last.before :
                    Uncategorised(last.before[n])
                    => \E i \in 1..Len(printed) :
                          /\ printed[i].kind = "entry"
                          /\ printed[i].series = n
                          /\ HeaderBefore(headers, i) # 0
                          /\ printed[HeaderBefore(headers, i)].category = Other
    /\ (last.op = "export")
       => /\ series_data = last.before
          /\ LET lines == Split(text_content, "\n")
                 headers == ExportHeaders(lines)
             IN  \A n \in DOMAIN last.before :
                    Uncategorised(last.before[n])
                    => \E i \in 1..Len(lines) :
                          /\ lines[i] = ExportLine(n, last.before[n])
                          /\ HeaderBefore(headers, i) # 0
                          /\ lines[HeaderBefore(headers, i)] = ExportHeader(Other)

\* A dict with a record that has no category and a record of category
\* "Uncategorized" was viewed: both are shown under Other and both are stored
\* as before.
C16_Witness ==
    /\ last.op = "view"
    /\ \E n, m \in DOMAIN series_data :
          /\ "category" \notin DOMAIN series_data[n]
          /\ "category" \in DOMAIN series_data[m]
          /\ series_data[m].category = Uncategorized
    /\ Len(last.printed) = 5
    /\ last.printed[2] = [kind |-> "header", category |-> Other]

(***************************************************************************)
(* The claims about the menu's actions, checked under SpecMenuFaulty and   *)
(* SpecMenu.                                                               *)
(***************************************************************************)
\* The chapter input is one update_series_chapter accepts.
AcceptedChapter(chapter_number) ==
    ParseFloat(chapter_number).ok /\ ~FloatLt(ParseFloat(chapter_number).val, Zero)

\* The latest menu action ran an update whose validation passed, so that
\* save_series_data was called, and the category it ran with.
UpdateCategory ==
    IF last.op = "add" THEN last.category
    ELSE IF "category" \in DOMAIN last.before[last.series_name]
         THEN last.before[last.series_name].category ELSE Uncategorized
ValidatedUpdate ==
    /\ last.op \in {"add", "find_update"}
    /\ last.op = "add" => last.asked
    /\ ValidCategory(UpdateCategory)
    /\ AcceptedChapter(last.chapter_number)

\* C17: when the write fails during the save of an update, the failure is
\* caught and reported, the update returns success, the dict holds the record
\* just written and every other record as before, and main_menu is back at
\* its loop.
C17_FailedSaveKeepsStore ==
    (ValidatedUpdate /\ last.write # "ok")
    => /\ last.report = "caught"
       /\ last.ret = TRUE
       /\ pc = "menu"
       /\ DOMAIN series_data = DOMAIN last.before \cup {last.series_name}
       /\ series_data[last.series_name]
            = Info(ParseFloat(last.chapter_number).val, UpdateCategory)
       /\ \A n \in DOMAIN last.before : n # last.series_name => series_data[n] = last.before[n]

\* An Add whose dump failed on top of a loaded record: the file is truncated,
\* the dict holds both records and the menu goes on.
C17_Witness ==
    /\ last.op = "add"
    /\ last.write = "dump_fails"
    /\ last.ret = TRUE
    /\ last.report = "caught"
    /\ pc = "menu"
    /\ Cardinality(DOMAIN series_data) = 2
    /\ document = Corrupt
    /\ last.doc_before.kind = "json"

(***************************************************************************)
(* The frame of update_series_chapter, checked under Spec.                 *)
(***************************************************************************)
\* C18: a call update_series_chapter(name, ...) leaves every record under
\* another name as it was and removes no name; the set of names grows by
\* exactly one, the name, when it was absent and the call succeeds, and stays
\* the same otherwise.
C18_OnlyTheNamedRecordChanges ==
    IsUpdate
    => /\ \A n \in DOMAIN last.before :
             n # last.series_name => (n \in DOMAIN series_data /\ series_data[n] = last.before[n])
       /\ DOMAIN last.before \subseteq DOMAIN series_data
       /\ IF last.series_name \notin DOMAIN last.before /\ last.ret = TRUE
          THEN /\ DOMAIN series_data = DOMAIN last.before \cup {last.series_name}
               /\ Cardinality(DOMAIN series_data) = Cardinality(DOMAIN last.before) + 1
          ELSE DOMAIN series_data = DOMAIN last.before

\* A name was added to a dict that held another record, which is still there.
C18_Witness ==
    /\ IsUpdate
    /\ last.ret = TRUE
    /\ last.series_name \notin DOMAIN last.before
    /\ Cardinality(DOMAIN last.before) = 1
    /\ Cardinality(DOMAIN series_data) = 2
    /\ \A n \in DOMAIN last.before : series_data[n] = last.before[n]

\* C19: Add New Series never modifies an existing record; when the name typed
\* is empty or already a key of the dict it returns False before category and
\* chapter are asked for, the dict is unchanged, and no save is performed, so
\* the file is unchanged too.
C19_AddLeavesKnownNames ==
    (last.op = "add")
    => /\ \A n \in DOMAIN last.before :
             n \in DOMAIN series_data /\ series_data[n] = last.before[n]
       /\ (last.series_name = <<>> \/ last.series_name \in DOMAIN last.before)
          => /\ last.ret = FALSE
             /\ ~last.asked
             /\ series_data = last.before
             /\ ~last.saved
             /\ document = last.doc_before

\* Add was asked for a name the dict holds while the file lagged behind the
\* dict after a failed write: dict and file are as they were.
C19_Witness ==
    /\ last.op = "add"
    /\ last.series_name \in DOMAIN last.before
    /\ last.ret = FALSE
    /\ series_data = last.before
    /\ document # Json(series_data)
    /\ document = last.doc_before

\* C20: Find & Check Status never changes the category of a record: an update
\* made through it writes the record back with its stored category, and when
\* the stored category of the selected record is missing or outside the
\* enumeration the update is rejected and the dict is left as it was,
\* whatever chapter is typed.
C20_FindKeepsCategory ==
    /\ (last.op = "find") => series_data = last.before
    /\ (last.op = "find_update")
       => /\ DOMAIN series_data = DOMAIN last.before
          /\ \A n \in DOMAIN last.before :
                /\ ("category" \in DOMAIN series_data[n]) <=> ("category" \in DOMAIN last.before[n])
                /\ "category" \in DOMAIN last.before[n]
                   => series_data[n].category = last.before[n].category
          /\ last.ret = TRUE
             => series_data[last.series_name]
                  = Info(ParseFloat(last.chapter_number).val,
                         last.before[last.series_name].category)
          /\ Uncategorised(last.before[last.series_name])
             => last.ret = FALSE /\ series_data = last.before

\* A record of category "Uncategorized" was selected and an acceptable chapter
\* typed: the update is refused and the record is as before.
C20_Witness ==
    /\ last.op = "find_update"
    /\ "category" \in DOMAIN last.before[last.series_name]
    /\ last.before[last.series_name].category = Uncategorized
    /\ AcceptedChapter(last.chapter_number)
    /\ last.ret = FALSE
    /\ series_data = last.before

====
